---- MODULE Spec2Model ----
(***************************************************************************)
(* Plan/Act orchestration kernel of Co-Sight.                              *)
(*                                                                         *)
(*   Plan            src/app/manus/task/todolist.py                        *)
(*   Manus           src/app/manus/manus.py         (execute, execute_steps)*)
(*   TaskActorAgent  src/app/manus/agent/actor/task_actor_agent.py         *)
(*   BaseAgent       src/app/manus/agent/base/base_agent.py                *)
(*                                                                         *)
(* Python lists are sequences; a Python index i is position i + 1.         *)
(* Python dicts are functions whose DOMAIN is the key set.  The Plan keeps *)
(* status, notes and tool records in dicts keyed by the step DESCRIPTION,  *)
(* and the dependencies in a dict keyed by the step INDEX.                 *)
(***************************************************************************)
EXTENDS Integers, Sequences, FiniteSets, TLC

\* ------------------------------------------------------------------ bounds
MaxSteps == 2          \* longest step list the planner LLM proposes
MaxTools == 1          \* recorded tool calls, other than mark_step, per step
MaxReady == 6          \* largest ready set of the scheduler specification
MaxChain == 3          \* longest linear plan of the chain specification
MaxIteration == 3      \* max_iteration of BaseAgent.execute (20 in the code)
MaxGroups == 4         \* most message groups of a history
MaxCalls == 2          \* most tool calls of one response

\* ------------------------------------------------------- program constants
MaxParallel == 5       \* Semaphore(min(5, len(ready_steps)))
MaxCreateRetry == 3    \* while ... and retry_count < 3
MaxRePlanTry == 3      \* re-plan attempts
MaxRetries == 5        \* max_retries of create_with_tools
MaxRepairs == 3        \* repair attempts of check_and_fix_tool_call_params

Descs == {"a", "b"}                            \* step descriptions
CreateTitle == "t1"                            \* title of a create_plan call
RePlanTitle == "t2"                            \* title of an update_plan call
ValidStatuses == {"not_started", "in_progress", "completed", "blocked"}
LLMStatuses == {"completed", "blocked", "done"} \* step_status strings of the LLM

\* ------------------------------------------------------------ Python values
None == <<>>                 \* Optional[List]: None
Some(x) == <<x>>             \* Optional[List]: a value
EmptyDict == <<>>            \* {} (and a None dict: both are falsy)

Range(s) == {s[k] : k \in 1..Len(s)}

\* list[idx] of Python: negative indices count from the end
IndexOK(s, idx) == idx < Len(s) /\ idx >= 0 - Len(s)

At(s, idx) == IF idx >= 0 THEN s[idx + 1] ELSE s[Len(s) + idx + 1]

\* dict.get(key, default)
Get(d, key, default) == IF key \in DOMAIN d THEN d[key] ELSE default

\* {i: [i - 1] for i in range(1, n)} if n > 1 else {}
LinearChain(n) == [i \in 1..(n - 1) |-> <<i - 1>>]

\* --------------------------------------------------------------- the Plan
\* Plan.__init__ with no arguments, as Manus.__init__ builds it
NewPlan ==
    [title |-> "", steps |-> <<>>, step_statuses |-> <<>>, step_notes |-> <<>>,
     step_tools |-> <<>>, facts |-> {}, dependencies |-> EmptyDict, result |-> ""]

\* status of the step at Python index i, as the code reads it
StatusAt(p, i) == Get(p.step_statuses, At(p.steps, i), "None")

\* all(self.step_statuses.get(self.steps[dep]) != "not_started" for dep in deps)
\* evaluated lazily from the left: "ok", "no" (a dependency is not_started)
\* or "IndexError" (self.steps[dep] is outside the list)
RECURSIVE AllDepsStarted(_, _, _)
AllDepsStarted(p, deps, k) ==
    IF k > Len(deps) THEN "ok"
    ELSE IF ~IndexOK(p.steps, deps[k]) THEN "IndexError"
    ELSE IF StatusAt(p, deps[k]) = "not_started" THEN "no"
    ELSE AllDepsStarted(p, deps, k + 1)

\* get_ready_steps that does not look at the dependencies of a step
DepsCheck_ignore(p, i) == "ok"

DepsCheck(p, i) == AllDepsStarted(p, Get(p.dependencies, i, <<>>), 1)

RECURSIVE ReadyFrom(_, _)
ReadyFrom(p, i) ==
    IF i >= Len(p.steps) THEN <<>>
    ELSE IF DepsCheck(p, i) = "ok" /\ StatusAt(p, i) = "not_started"
         THEN <<i>> \o ReadyFrom(p, i + 1)
         ELSE ReadyFrom(p, i + 1)

\* Plan.get_ready_steps: raised when some self.steps[dep] is evaluated
\* outside the list, else the list of ready indices
get_ready_steps(p) ==
    IF \E i \in 0..(Len(p.steps) - 1) : DepsCheck(p, i) = "IndexError"
    THEN [raised |-> TRUE, val |-> <<>>]
    ELSE [raised |-> FALSE, val |-> ReadyFrom(p, 0)]

\* Plan.update that does not carry the status of a started step over
NewStatus_reset(p, d) == "not_started"

\* Plan.update that resets the tool records of every step
NewTools_reset(p, d) == <<>>

\* the three branches of the loop of Plan.update for one description
NewStatus(p, d) ==
    IF d \in Range(p.steps) /\ Get(p.step_statuses, d, "None") # "not_started"
    THEN Get(p.step_statuses, d, "None")
    ELSE "not_started"

NewNotes(p, d) ==
    IF d \in Range(p.steps) THEN Get(p.step_notes, d, "None") ELSE ""

NewTools(p, d) ==
    IF d \in Range(p.steps) /\ Get(p.step_statuses, d, "None") # "not_started"
    THEN Get(p.step_tools, d, <<>>)
    ELSE <<>>

\* Plan.update raises TypeError at len(steps) when steps is None and the
\* dependencies are falsy
update_raises(p, title, steps, dependencies) ==
    dependencies = EmptyDict /\ steps = None

\* Plan.update whose first branch forgets new_steps.append(step): a started
\* step is not carried into the new list
update_no_append(p, title, steps, dependencies) ==
    LET s0 == IF steps = None THEN <<>> ELSE steps[1]
        IsFresh(d) == ~(d \in Range(p.steps)
                        /\ Get(p.step_statuses, d, "None") # "not_started")
        s  == SelectSeq(s0, IsFresh)
    IN  [p EXCEPT !.title = IF title # "" THEN title ELSE @,
                  !.steps = s,
                  !.step_statuses = [d \in Range(s) |-> "not_started"],
                  !.step_notes = [d \in Range(s) |-> NewNotes(p, d)],
                  !.step_tools = [d \in Range(s) |-> <<>>],
                  !.dependencies = IF dependencies # EmptyDict THEN dependencies
                                   ELSE LinearChain(Len(s0))]

\* Plan.update(title, steps, dependencies): the plan after the call (after
\* the TypeError too: the title is already assigned then)
update(p, title, steps, dependencies) ==
    LET p1 == IF title # "" THEN [p EXCEPT !.title = title] ELSE p
        s  == IF steps = None THEN <<>> ELSE steps[1]
        p2 == IF s # <<>>
              THEN [p1 EXCEPT !.steps = s,
                              !.step_statuses = [d \in Range(s) |-> NewStatus(p, d)],
                              !.step_notes = [d \in Range(s) |-> NewNotes(p, d)],
                              !.step_tools = [d \in Range(s) |-> NewTools(p, d)]]
              ELSE p1
    IN  IF dependencies # EmptyDict
        THEN [p2 EXCEPT !.dependencies = dependencies]
        ELSE IF steps = None THEN p2
        ELSE [p2 EXCEPT !.dependencies = LinearChain(Len(s))]

\* Plan.mark_step raises ValueError for an index outside the list
mark_step_raises(p, i) == i < 0 \/ i >= Len(p.steps)

\* Plan.mark_step, first write: self.step_statuses[step] = step_status
mark_step_status(p, i, step_status) ==
    IF mark_step_raises(p, i) THEN p
    ELSE [p EXCEPT !.step_statuses[At(p.steps, i)] = step_status]

\* Plan.mark_step, second write: self.step_notes[step] = step_notes, where
\* step is the description read before the first write
mark_step_notes(p, step, step_notes) ==
    [p EXCEPT !.step_notes =
        [d \in (DOMAIN p.step_notes) \cup {step} |->
            IF d = step THEN step_notes ELSE p.step_notes[d]]]

\* Plan.mark_step(step_index, step_status, step_notes), both writes
mark_step(p, i, step_status, step_notes) ==
    IF mark_step_raises(p, i) THEN p
    ELSE mark_step_notes(mark_step_status(p, i, step_status), At(p.steps, i), step_notes)

\* ActToolkit.mark_step, the handler of the mark_step tool: passes its
\* arguments to Plan.mark_step; the ValueError of an invalid index becomes
\* an "Execution error" tool message and the plan is unchanged
mark_step_tool(p, i, step_status, step_notes) == mark_step(p, i, step_status, step_notes)

\* PlanToolkit.create_plan, the handler of the planner's create_plan tool:
\* passes title, steps and dependencies to Plan.update
create_plan(p, title, steps, dependencies) == update(p, title, Some(steps), dependencies)

\* PlanToolkit.update_plan, the handler of the planner's update_plan tool:
\* passes its arguments to Plan.update
update_plan(p, title, steps, dependencies) == update(p, title, Some(steps), dependencies)

\* Plan.record_tool_execution: append one record to the step's list
record_tool_execution(p, i, tool_name, result) ==
    IF i < 0 \/ i >= Len(p.steps) THEN p
    ELSE [p EXCEPT !.step_tools[At(p.steps, i)] =
              Append(@, [tool |-> tool_name, result |-> result])]

\* Plan.update_facts
update_facts(p, new_fact) == [p EXCEPT !.facts = new_fact]


\* ------------------------------------------------- inputs from the LLM
RECURSIVE SeqsUpTo(_, _)
SeqsUpTo(S, n) ==
    IF n = 0 THEN {<<>>}
    ELSE LET shorter == SeqsUpTo(S, n - 1)
         IN  shorter \cup {Append(s, d) : s \in shorter, d \in S}

\* step lists of a create_plan / update_plan tool call
StepLists == SeqsUpTo(Descs, MaxSteps) \ {<<>>}

\* dependencies of a create_plan / update_plan tool call: omitted, none for
\* step 0 (steps run in parallel), a chain, a two-step cycle, a
\* self-dependency, a dependency on a step that does not exist
DepChoices ==
    {EmptyDict, 0 :> <<>>, 1 :> <<0>>, (0 :> <<1>>) @@ (1 :> <<0>>),
     0 :> <<0>>, 1 :> <<MaxSteps>>}

\* ------------------------------------------------------------------ state
VARIABLES
    plan,          \* the Plan shared by the planner and the Actors
    pc,            \* position of Manus.execute
    retry_count,   \* retry_count of Manus.execute
    replan_try,    \* attempts of the running re_plan
    ready,         \* ready_steps of the running execute_steps
    spawned,       \* threads started by execute_steps
    tpc,           \* position of the thread of each step of the wave
    tl,            \* locals of each thread
    semaphore,     \* value of the Semaphore of execute_steps
    result_queue,  \* result_queue of execute_steps: the step indices put and not
                   \* yet taken (the entries have distinct keys, so the order in
                   \* which the queue is drained into results is immaterial)
    results,       \* results returned by the last execute_steps
    agent,         \* one run of BaseAgent.execute followed on its own
    llm            \* one call of ChatLLM followed on its own

vars == <<plan, pc, retry_count, replan_try, ready, spawned, tpc, tl,
          semaphore, result_queue, results, agent, llm>>

\* no BaseAgent.execute and no ChatLLM call is followed
others == <<agent, llm>>
Idle == <<>>

sched == <<ready, spawned, semaphore, result_queue, results>>
main == <<pc, retry_count, replan_try>>

NoLocals == [seen |-> {}, step |-> "", notes |-> "", next |-> ""]

Min(a, b) == IF a < b THEN a ELSE b

\* a semaphore with one permit per ready step
SemaphoreValue_unbounded(n) == n

\* Semaphore(min(5, len(ready_steps)))
SemaphoreValue(n) == Min(MaxParallel, n)

\* Manus.__init__ and the entry of Manus.execute
Init ==
    /\ plan = NewPlan
    /\ pc = "create"
    /\ retry_count = 0
    /\ replan_try = 0
    /\ ready = <<>>
    /\ spawned = 0
    /\ tpc = <<>>
    /\ tl = <<>>
    /\ semaphore = 0
    /\ result_queue = {}
    /\ results = <<>>
    /\ agent = Idle
    /\ llm = Idle

\* --------------------------------------------------------- Manus.execute
\* one pass of the loop "while not get_ready_steps() and retry_count < 3":
\* the planner LLM answers without a tool call, or calls create_plan, which
\* builds the plan with Plan.update
CreatePlan ==
    /\ pc = "create"
    /\ ~get_ready_steps(plan).raised
    /\ get_ready_steps(plan).val = <<>>
    /\ retry_count < MaxCreateRetry
    /\ \/ UNCHANGED plan
       \/ \E s \in StepLists, d \in DepChoices :
              plan' = create_plan(plan, CreateTitle, s, d)
    /\ retry_count' = retry_count + 1
    /\ UNCHANGED <<pc, replan_try, tpc, tl, sched, others>>

\* the loop ends: the plan has a ready step or the retries are used up
CreateExit ==
    /\ pc = "create"
    /\ ~get_ready_steps(plan).raised
    /\ get_ready_steps(plan).val # <<>> \/ retry_count >= MaxCreateRetry
    /\ pc' = "loop"
    /\ retry_count' = 0          \* never read again: no longer tracked
    /\ UNCHANGED <<plan, replan_try, tpc, tl, sched, others>>

\* get_ready_steps raises IndexError: the exception leaves execute
ExecuteRaise ==
    /\ pc \in {"create", "loop"}
    /\ get_ready_steps(plan).raised
    /\ pc' = "crashed"
    /\ UNCHANGED <<plan, retry_count, replan_try, tpc, tl, sched, others>>

\* "if not ready_steps: break"
LoopBreak ==
    /\ pc = "loop"
    /\ ~get_ready_steps(plan).raised
    /\ get_ready_steps(plan).val = <<>>
    /\ pc' = "finalize"
    /\ UNCHANGED <<plan, retry_count, replan_try, tpc, tl, sched, others>>

\* execute_steps(question, ready_steps): the semaphore is created and one
\* thread per ready step is started (a started thread that has not run yet
\* is at "start")
LoopDispatch ==
    /\ pc = "loop"
    /\ ~get_ready_steps(plan).raised
    /\ get_ready_steps(plan).val # <<>>
    /\ ready' = get_ready_steps(plan).val
    /\ semaphore' = SemaphoreValue(Len(ready'))
    /\ spawned' = Len(ready')
    /\ tpc' = [i \in Range(ready') |-> "start"]
    /\ tl' = [i \in Range(ready') |-> NoLocals]
    /\ result_queue' = {}
    /\ results' = <<>>
    /\ pc' = "wave"
    /\ UNCHANGED <<plan, retry_count, replan_try, others>>

\* semaphore.acquire() of execute_step
Acquire(i) ==
    /\ i \in DOMAIN tpc
    /\ tpc[i] = "start"
    /\ semaphore > 0
    /\ semaphore' = semaphore - 1
    /\ tpc' = [tpc EXCEPT ![i] = "act"]
    /\ UNCHANGED <<plan, main, tl, ready, spawned, result_queue, results, others>>

\* result_queue.put((step_index, result)) and semaphore.release()
Finish(i) ==
    /\ i \in DOMAIN tpc
    /\ tpc[i] = "put"
    /\ result_queue' = result_queue \cup {i}
    /\ semaphore' = semaphore + 1
    /\ tpc' = [tpc EXCEPT ![i] = "done"]
    /\ UNCHANGED <<plan, main, tl, ready, spawned, results, others>>

\* TaskActorAgent(...) raises inside the try of execute_step: the finally
\* releases the semaphore, nothing is put on the queue and the thread ends
\* with the exception
ConstructRaise(i) ==
    /\ i \in DOMAIN tpc
    /\ tpc[i] = "act"
    /\ semaphore' = semaphore + 1
    /\ tpc' = [tpc EXCEPT ![i] = "done"]
    /\ UNCHANGED <<plan, main, tl, ready, spawned, result_queue, results, others>>

\* "for thread in threads: thread.join()" returns at once
Join_no_wait ==
    /\ pc = "wave"
    /\ spawned = Len(ready)
    /\ results' = [i \in result_queue |-> "result"]
    /\ result_queue' = {}
    /\ tpc' = <<>>
    /\ tl' = <<>>
    /\ pc' = "replan"
    /\ UNCHANGED <<plan, retry_count, replan_try, ready, spawned, semaphore, others>>

\* every thread is joined; the queue is drained into results
Join ==
    /\ pc = "wave"
    /\ spawned = Len(ready)
    /\ \A i \in DOMAIN tpc : tpc[i] = "done"
    /\ results' = [i \in result_queue |-> "result"]
    /\ result_queue' = {}
    /\ tpc' = <<>>
    /\ tl' = <<>>
    /\ pc' = "replan"
    /\ UNCHANGED <<plan, retry_count, replan_try, ready, spawned, semaphore, others>>

\* ---------------------------------------------------- TaskActorAgent.act
\* self.plan.mark_step(step_index, step_status="in_progress")
ActBegin(t) ==
    /\ tpc[t] = "act"
    /\ plan' = mark_step_status(plan, t, "in_progress")
    /\ tpc' = [tpc EXCEPT ![t] = "exec"]
    /\ UNCHANGED <<main, tl, sched, others>>

\* a round of BaseAgent.execute whose tool call is not mark_step: the call
\* is recorded on the Actor's step
ToolRound(t) ==
    /\ tpc[t] = "exec"
    /\ Len(Get(plan.step_tools, At(plan.steps, t), <<>>)) < MaxTools
    /\ plan' = record_tool_execution(plan, t, "search_google", "found")
    /\ UNCHANGED <<main, tpc, tl, sched, others>>

\* a round whose tool call is mark_step: step_index is the Actor's own
\* index when the LLM leaves it out, else the index the LLM gives; the
\* call is recorded on the Actor's step and execute returns
ToolMarkStepWith(t, indices, statuses) ==
    /\ tpc[t] = "exec"
    /\ \E i \in indices, status \in statuses :
          plan' = record_tool_execution(mark_step_tool(plan, i, status, "note"),
                                        t, "mark_step", "marked")
    /\ tpc' = [tpc EXCEPT ![t] = "post"]
    /\ UNCHANGED <<main, tl, sched, others>>

ToolMarkStep(t) == ToolMarkStepWith(t, 0..MaxSteps, LLMStatuses)

\* a round whose response has no tool call: execute returns the content
NoToolResponse(t) ==
    /\ tpc[t] = "exec"
    /\ tpc' = [tpc EXCEPT ![t] = "post"]
    /\ UNCHANGED <<plan, main, tl, sched, others>>

\* create_with_tools of _handle_max_iteration raises: "except Exception"
\* of act marks the step blocked and act returns
ExecRaise(t) ==
    /\ tpc[t] = "exec"
    /\ plan' = mark_step(plan, t, "blocked", "error")
    /\ tpc' = [tpc EXCEPT ![t] = "put"]
    /\ UNCHANGED <<main, tl, sched, others>>

\* "if status == in_progress: mark_step(step_index, completed, str(result))"
ActPost(t) ==
    /\ tpc[t] = "post"
    /\ plan' = IF StatusAt(plan, t) = "in_progress"
               THEN mark_step(plan, t, "completed", "result")
               ELSE plan
    /\ tpc' = [tpc EXCEPT ![t] = "fact"]
    /\ UNCHANGED <<main, tl, sched, others>>

\* update_fact: the prompt is built from self.plan.facts
FactRead(t) ==
    /\ tpc[t] = "fact"
    /\ tl' = [tl EXCEPT ![t] = [@ EXCEPT !.seen = plan.facts]]
    /\ tpc' = [tpc EXCEPT ![t] = "fact_llm"]
    /\ UNCHANGED <<plan, main, sched, others>>

\* chat_to_llm returns: self.plan.update_facts(result)
FactWrite(t) ==
    /\ tpc[t] = "fact_llm"
    /\ plan' = update_facts(plan, tl[t].seen \cup {t})
    /\ tpc' = [tpc EXCEPT ![t] = "put"]
    /\ tl' = [tl EXCEPT ![t] = NoLocals]
    /\ UNCHANGED <<main, sched, others>>

\* chat_to_llm raises: "except Exception" of act marks the step blocked
FactFail(t) ==
    /\ tpc[t] = "fact_llm"
    /\ plan' = mark_step(plan, t, "blocked", "error")
    /\ tpc' = [tpc EXCEPT ![t] = "put"]
    /\ tl' = [tl EXCEPT ![t] = NoLocals]
    /\ UNCHANGED <<main, sched, others>>

\* ------------------------------------------------------------- re_plan
\* descriptions of the steps that left not_started
Started(p) == {d \in Range(p.steps) : Get(p.step_statuses, d, "None") # "not_started"}

\* an update_plan edit may not delete a completed, in_progress or blocked step
EditAllowed(p, s) == Started(p) \subseteq Range(s)

\* the planner LLM answers "no adjustment needed"
RePlanKeep ==
    /\ pc = "replan"
    /\ pc' = "loop"
    /\ replan_try' = 0
    /\ UNCHANGED <<plan, retry_count, tpc, tl, sched, others>>

\* the planner LLM calls update_plan with an allowed edit, its dependencies
\* argument drawn from deps
RePlanApplyWith(deps) ==
    /\ pc = "replan"
    /\ \E s \in StepLists, d \in deps :
          /\ EditAllowed(plan, s)
          /\ plan' = update_plan(plan, RePlanTitle, s, d)
    /\ pc' = "loop"
    /\ replan_try' = 0
    /\ UNCHANGED <<retry_count, tpc, tl, sched, others>>

RePlanApply == RePlanApplyWith(DepChoices)

\* the planner LLM calls update_plan with an edit that deletes a started
\* step: rejected; after the third rejection the existing plan is kept
RePlanReject ==
    /\ pc = "replan"
    /\ \E s \in StepLists : ~EditAllowed(plan, s)
    /\ IF replan_try + 1 >= MaxRePlanTry
       THEN pc' = "loop" /\ replan_try' = 0
       ELSE pc' = pc /\ replan_try' = replan_try + 1
    /\ UNCHANGED <<plan, retry_count, tpc, tl, sched, others>>

\* the strings finalize_plan returns: the answer of the finalize response,
\* or a diagnostic prefixed by "error: " when finalization fails
FinalAnswer == "answer"
Diagnostic == "error: finalization failed"

\* finalize_plan: the final answer is stored and returned by execute
Finalize ==
    /\ pc = "finalize"
    /\ \E r \in {FinalAnswer, Diagnostic} : plan' = [plan EXCEPT !.result = r]
    /\ pc' = "done"
    /\ UNCHANGED <<retry_count, replan_try, tpc, tl, sched, others>>

Next ==
    \/ CreatePlan
    \/ CreateExit
    \/ ExecuteRaise
    \/ LoopBreak
    \/ LoopDispatch
    \/ Join
    \/ RePlanKeep
    \/ RePlanApply
    \/ RePlanReject
    \/ Finalize
    \/ \E t \in DOMAIN tpc : Acquire(t)
    \/ \E t \in DOMAIN tpc : ActBegin(t)
    \/ \E t \in DOMAIN tpc : ToolRound(t)
    \/ \E t \in DOMAIN tpc : ToolMarkStep(t)
    \/ \E t \in DOMAIN tpc : NoToolResponse(t)
    \/ \E t \in DOMAIN tpc : ExecRaise(t)
    \/ \E t \in DOMAIN tpc : ActPost(t)
    \/ \E t \in DOMAIN tpc : FactRead(t)
    \/ \E t \in DOMAIN tpc : FactWrite(t)
    \/ \E t \in DOMAIN tpc : FactFail(t)
    \/ \E t \in DOMAIN tpc : Finish(t)
    \/ \E t \in DOMAIN tpc : ConstructRaise(t)

Spec == Init /\ [][Next]_vars


\* ====================================================================
\* The Actors of one wave with the two writes of Plan.mark_step as separate
\* steps: the threads of execute_steps run the Plan methods with no lock,
\* so another thread can run between the writes of one call.
\* ====================================================================
\* the first write of a mark_step(i, status, notes) made by thread t; the
\* thread goes on with the second write and then to next
MarkBegin(t, i, status, notes, next) ==
    /\ plan' = mark_step_status(plan, i, status)
    /\ tl' = [tl EXCEPT ![t] = [@ EXCEPT !.step = At(plan.steps, i),
                                         !.notes = notes, !.next = next]]
    /\ tpc' = [tpc EXCEPT ![t] = "mark_notes"]

\* the second write of the mark_step; a mark_step tool call is then recorded
\* by _execute_tool_calls
MarkNotes(t) ==
    /\ tpc[t] = "mark_notes"
    /\ LET p1 == mark_step_notes(plan, tl[t].step, tl[t].notes)
       IN  IF tl[t].next = "record"
           THEN /\ plan' = record_tool_execution(p1, t, "mark_step", "marked")
                /\ tpc' = [tpc EXCEPT ![t] = "post"]
           ELSE /\ plan' = p1
                /\ tpc' = [tpc EXCEPT ![t] = tl[t].next]
    /\ tl' = [tl EXCEPT ![t] = NoLocals]
    /\ UNCHANGED <<main, sched, others>>

\* ToolMarkStep up to the first write of Plan.mark_step
ToolMarkStepBegin(t) ==
    /\ tpc[t] = "exec"
    /\ \E i \in 0..MaxSteps, status \in LLMStatuses :
          IF mark_step_raises(plan, i)
          THEN /\ plan' = record_tool_execution(plan, t, "mark_step", "Execution error")
               /\ tpc' = [tpc EXCEPT ![t] = "post"]
               /\ UNCHANGED tl
          ELSE MarkBegin(t, i, status, "note", "record")
    /\ UNCHANGED <<main, sched, others>>

\* ExecRaise up to the first write of Plan.mark_step
ExecRaiseBegin(t) ==
    /\ tpc[t] = "exec"
    /\ MarkBegin(t, t, "blocked", "error", "put")
    /\ UNCHANGED <<main, sched, others>>

\* ActPost up to the first write of Plan.mark_step
ActPostBegin(t) ==
    /\ tpc[t] = "post"
    /\ IF StatusAt(plan, t) = "in_progress"
       THEN MarkBegin(t, t, "completed", "result", "fact")
       ELSE /\ tpc' = [tpc EXCEPT ![t] = "fact"]
            /\ UNCHANGED <<plan, tl>>
    /\ UNCHANGED <<main, sched, others>>

\* FactFail up to the first write of Plan.mark_step
FactFailBegin(t) ==
    /\ tpc[t] = "fact_llm"
    /\ MarkBegin(t, t, "blocked", "error", "put")
    /\ UNCHANGED <<main, sched, others>>

\* execute has left the create_plan loop with a plan that has a ready step
ConcInit ==
    /\ \E s \in StepLists, d \in DepChoices :
          /\ plan = create_plan(NewPlan, CreateTitle, s, d)
          /\ ~get_ready_steps(plan).raised
          /\ get_ready_steps(plan).val # <<>>
    /\ pc = "loop"
    /\ retry_count = 0
    /\ replan_try = 0
    /\ ready = <<>>
    /\ spawned = 0
    /\ tpc = <<>>
    /\ tl = <<>>
    /\ semaphore = 0
    /\ result_queue = {}
    /\ results = <<>>
    /\ agent = Idle
    /\ llm = Idle

ConcNext ==
    \/ LoopDispatch
    \/ Join
    \/ \E t \in DOMAIN tpc : Acquire(t)
    \/ \E t \in DOMAIN tpc : ActBegin(t)
    \/ \E t \in DOMAIN tpc : ToolRound(t)
    \/ \E t \in DOMAIN tpc : ToolMarkStepBegin(t)
    \/ \E t \in DOMAIN tpc : NoToolResponse(t)
    \/ \E t \in DOMAIN tpc : ExecRaiseBegin(t)
    \/ \E t \in DOMAIN tpc : ActPostBegin(t)
    \/ \E t \in DOMAIN tpc : MarkNotes(t)
    \/ \E t \in DOMAIN tpc : FactRead(t)
    \/ \E t \in DOMAIN tpc : FactWrite(t)
    \/ \E t \in DOMAIN tpc : FactFailBegin(t)
    \/ \E t \in DOMAIN tpc : Finish(t)
    \/ \E t \in DOMAIN tpc : ConstructRaise(t)

ConcSpec == ConcInit /\ [][ConcNext]_vars

\* ====================================================================
\* execute_steps alone, for ready sets larger than the semaphore: each
\* act is one step.
\* ====================================================================
StepNames == <<"s0", "s1", "s2", "s3", "s4", "s5", "s6", "s7">>

\* execute_step from the acquired semaphore to its release: act marks the
\* step in_progress, then completed or blocked with notes, and returns; the
\* result is put on the queue and the semaphore is released
RunStep(t) ==
    /\ t \in DOMAIN tpc
    /\ tpc[t] = "act"
    /\ \E outcome \in {<<"completed", "result">>, <<"blocked", "error">>} :
          plan' = mark_step(mark_step_status(plan, t, "in_progress"),
                            t, outcome[1], outcome[2])
    /\ result_queue' = result_queue \cup {t}
    /\ semaphore' = semaphore + 1
    /\ tpc' = [tpc EXCEPT ![t] = "done"]
    /\ UNCHANGED <<main, tl, ready, spawned, results, others>>

\* execute is at the head of its scheduling loop with a plan of 1..MaxReady
\* steps, none depending on another
SemInit ==
    /\ \E n \in 1..MaxReady :
          plan = create_plan(NewPlan, CreateTitle, SubSeq(StepNames, 1, n), 0 :> <<>>)
    /\ pc = "loop"
    /\ retry_count = 0
    /\ replan_try = 0
    /\ ready = <<>>
    /\ spawned = 0
    /\ tpc = <<>>
    /\ tl = <<>>
    /\ semaphore = 0
    /\ result_queue = {}
    /\ results = <<>>
    /\ agent = Idle
    /\ llm = Idle

SemNext ==
    \/ LoopDispatch
    \/ Join
    \/ \E t \in DOMAIN tpc : Acquire(t)
    \/ \E t \in DOMAIN tpc : RunStep(t)
    \/ \E t \in DOMAIN tpc : ConstructRaise(t)

\* the threads are scheduled fairly and every act returns
SemFairness ==
    /\ WF_vars(LoopDispatch)
    /\ WF_vars(Join)
    /\ \A t \in 0..(MaxReady - 1) :
          WF_vars(Acquire(t)) /\ WF_vars(RunStep(t))

SemSpec == SemInit /\ [][SemNext]_vars /\ SemFairness

\* ====================================================================
\* The Plan object under the calls of its callers: any sequence of calls
\* of its mutating methods with any arguments, and the Planner's re_plan.
\* pc is "update" after a call of Plan.update, "loop" after any other call
\* and "replan" while re_plan runs.
\* ====================================================================
\* dependencies arguments: left out (the default chain) or given
PlanDeps == {EmptyDict, 0 :> <<>>}

PlanInit ==
    /\ plan = NewPlan
    /\ pc = "new"
    /\ retry_count = 0
    /\ replan_try = 0
    /\ ready = <<>>
    /\ spawned = 0
    /\ tpc = <<>>
    /\ tl = <<>>
    /\ semaphore = 0
    /\ result_queue = {}
    /\ results = <<>>
    /\ agent = Idle
    /\ llm = Idle

\* plan.update(title, steps, dependencies)
CallUpdate ==
    /\ pc # "replan"
    /\ \E s \in StepLists, d \in PlanDeps :
          plan' = update(plan, RePlanTitle, Some(s), d)
    /\ pc' = "update"
    /\ UNCHANGED <<retry_count, replan_try, tpc, tl, sched, others>>

\* plan.mark_step(step_index, step_status) and
\* plan.mark_step(step_index, step_status, step_notes)
CallMarkStep ==
    /\ pc # "replan"
    /\ \E i \in 0..MaxSteps, status \in {"in_progress"} \cup LLMStatuses :
          \/ plan' = (IF mark_step_raises(plan, i) THEN plan
                      ELSE mark_step_status(plan, i, status))
          \/ plan' = mark_step(plan, i, status, "note")
    /\ pc' = "loop"
    /\ UNCHANGED <<retry_count, replan_try, tpc, tl, sched, others>>

\* plan.record_tool_execution(step_index, tool_name, result)
CallRecordTool ==
    /\ pc # "replan"
    /\ \E i \in 0..MaxSteps :
          /\ IndexOK(plan.steps, i) => Len(plan.step_tools[At(plan.steps, i)]) < MaxTools
          /\ plan' = record_tool_execution(plan, i, "search_google", "found")
    /\ pc' = "loop"
    /\ UNCHANGED <<retry_count, replan_try, tpc, tl, sched, others>>

\* plan.update_facts(new_fact)
CallUpdateFacts ==
    /\ pc # "replan"
    /\ plan' = update_facts(plan, {0})
    /\ pc' = "loop"
    /\ UNCHANGED <<retry_count, replan_try, tpc, tl, sched, others>>

\* Manus.execute calls re_plan
RePlanEnter ==
    /\ pc \in {"update", "loop"}
    /\ pc' = "replan"
    /\ UNCHANGED <<plan, retry_count, replan_try, tpc, tl, sched, others>>

PlanNext ==
    \/ CallUpdate
    \/ CallMarkStep
    \/ CallRecordTool
    \/ CallUpdateFacts
    \/ RePlanEnter
    \/ RePlanKeep
    \/ RePlanApplyWith(PlanDeps)
    \/ RePlanReject

PlanSpec == PlanInit /\ [][PlanNext]_vars

\* plan.update(title): steps and dependencies are left out; pc is
\* "TypeError" when the call raised, "title" when it returned
CallUpdateTitle ==
    /\ pc # "replan"
    /\ plan' = update(plan, RePlanTitle, None, EmptyDict)
    /\ pc' = IF update_raises(plan, RePlanTitle, None, EmptyDict)
             THEN "TypeError" ELSE "title"
    /\ UNCHANGED <<retry_count, replan_try, tpc, tl, sched, others>>

\* the calls of Plan.update and Plan.mark_step in any order
UpdateNext ==
    \/ CallUpdate
    \/ CallMarkStep
    \/ CallUpdateTitle

UpdateSpec == PlanInit /\ [][UpdateNext]_vars

\* ====================================================================
\* One execute on a created linear plan of 1..MaxChain steps in which every
\* Actor marks its own step completed (through the mark_step tool or at
\* the end of act) and every re_plan answers "no adjustment needed".
\* ====================================================================
ChainInit ==
    /\ \E n \in 1..MaxChain :
          plan = create_plan(NewPlan, CreateTitle, SubSeq(StepNames, 1, n), EmptyDict)
    /\ pc = "loop"
    /\ retry_count = 0
    /\ replan_try = 0
    /\ ready = <<>>
    /\ spawned = 0
    /\ tpc = <<>>
    /\ tl = <<>>
    /\ semaphore = 0
    /\ result_queue = {}
    /\ results = <<>>
    /\ agent = Idle
    /\ llm = Idle

\* the Actor of step t calls mark_step(t, "completed", notes)
MarkOwnCompleted(t) == ToolMarkStepWith(t, {t}, {"completed"})

ChainNext ==
    \/ LoopDispatch
    \/ LoopBreak
    \/ Join
    \/ RePlanKeep
    \/ Finalize
    \/ \E t \in DOMAIN tpc : Acquire(t)
    \/ \E t \in DOMAIN tpc : ActBegin(t)
    \/ \E t \in DOMAIN tpc : ToolRound(t)
    \/ \E t \in DOMAIN tpc : MarkOwnCompleted(t)
    \/ \E t \in DOMAIN tpc : NoToolResponse(t)
    \/ \E t \in DOMAIN tpc : ActPost(t)
    \/ \E t \in DOMAIN tpc : FactRead(t)
    \/ \E t \in DOMAIN tpc : FactWrite(t)
    \/ \E t \in DOMAIN tpc : Finish(t)

\* every call returns and every thread is scheduled
ChainFairness ==
    /\ WF_vars(LoopDispatch) /\ WF_vars(LoopBreak) /\ WF_vars(Join)
    /\ WF_vars(RePlanKeep) /\ WF_vars(Finalize)
    /\ \A t \in 0..(MaxChain - 1) :
          /\ WF_vars(t \in DOMAIN tpc /\ Acquire(t))
          /\ WF_vars(t \in DOMAIN tpc /\ ActBegin(t))
          /\ WF_vars(t \in DOMAIN tpc /\ NoToolResponse(t))
          /\ WF_vars(t \in DOMAIN tpc /\ ActPost(t))
          /\ WF_vars(t \in DOMAIN tpc /\ FactRead(t))
          /\ WF_vars(t \in DOMAIN tpc /\ FactWrite(t))
          /\ WF_vars(t \in DOMAIN tpc /\ Finish(t))

ChainSpec == ChainInit /\ [][ChainNext]_vars /\ ChainFairness

\* ====================================================================
\* The scheduling loop of execute with re_plan between the waves: every
\* Actor runs execute without tool call and then update_fact.
\* ====================================================================
WaveNext ==
    \/ ExecuteRaise
    \/ LoopBreak
    \/ LoopDispatch
    \/ Join
    \/ RePlanKeep
    \/ RePlanApply
    \/ RePlanReject
    \/ Finalize
    \/ \E t \in DOMAIN tpc : Acquire(t)
    \/ \E t \in DOMAIN tpc : ConstructRaise(t)
    \/ \E t \in DOMAIN tpc : ActBegin(t)
    \/ \E t \in DOMAIN tpc : NoToolResponse(t)
    \/ \E t \in DOMAIN tpc : ExecRaise(t)
    \/ \E t \in DOMAIN tpc : ActPost(t)
    \/ \E t \in DOMAIN tpc : FactRead(t)
    \/ \E t \in DOMAIN tpc : FactWrite(t)
    \/ \E t \in DOMAIN tpc : Finish(t)

WaveSpec == ConcInit /\ [][WaveNext]_vars

\* a round whose tool call is mark_step with a step_index of the plan and
\* "completed" or "in_progress" as step_status: nothing checks the argument
\* against the enum of the schema
ToolMarkStepAny(t) ==
    ToolMarkStepWith(t, 0..(MaxSteps - 1), {"completed", "in_progress"})

\* the scheduling loop with Actors whose LLM calls mark_step
MarkNext ==
    \/ WaveNext
    \/ \E t \in DOMAIN tpc : ToolMarkStepAny(t)

MarkSpec == ConcInit /\ [][MarkNext]_vars

\* ====================================================================
\* One TaskActorAgent.act(question, 0) on a plan of one step, followed
\* through BaseAgent.execute round by round; every response of the LLM
\* carries at most one tool call.
\* ====================================================================
rest == <<pc, retry_count, replan_try, ready, spawned, tpc, tl,
          semaphore, result_queue, results, llm>>

\* str(e) of the exception create_with_tools and chat_to_llm raise
LLMError == "LLMCallFailed"
\* f"{e},..." : the text execute writes over the content of messages[-1]
LLMErrorHint == "LLMCallFailed, hint"
\* f"Execution error: {str(e)}" of the three exceptions of a dispatch
ErrBadArgs == "Execution error: JSONDecodeError"
ErrHandler == "Execution error: handler raised"
ErrInvalidIndex == "Execution error: Invalid step_index"
ErrUnpack == "Execution error: cannot unpack non-iterable NoneType object"
ErrorTexts == {ErrBadArgs, ErrHandler, ErrInvalidIndex, ErrUnpack}

\* names of self.functions of the Actor the model tells apart
Functions == {"search_google", "mark_step"}

\* tool calls of a response: the name, whether the arguments parse, the
\* step_index argument (-1: left out) and whether the handler raises
ToolCalls ==
    [name : {"search_google"}, parses : BOOLEAN, index : {-1}, raises : BOOLEAN]
    \cup [name : {"mark_step"}, parses : BOOLEAN, index : {-1, 0, 1}, raises : {FALSE}]
    \cup [name : {"no_such_tool"}, parses : {TRUE}, index : {-1}, raises : {FALSE}]

Message(role, content, name, id) ==
    [role |-> role, content |-> content, name |-> name, tool_call_id |-> id]

\* the step_index a mark_step call ends with: the Actor's own when left out
MarkIndex(call) == IF call.index = -1 THEN 0 ELSE call.index

\* BaseAgent._execute_tool_call: the content of the tool message
ToolCallContent(p, call) ==
    IF ~call.parses THEN ErrBadArgs
    ELSE IF call.name = "mark_step"
         THEN IF mark_step_raises(p, MarkIndex(call)) THEN ErrInvalidIndex
              ELSE "marked"
         ELSE IF call.raises THEN ErrHandler ELSE "found"

\* BaseAgent._execute_mcp_tool_call: find_mcp_tool returns None for a name
\* no MCP tool has, and unpacking None raises inside the try
McpToolCallContent(call) == ErrUnpack

\* the tool message of one call of _execute_tool_calls
ToolMessage(p, call, id) ==
    Message("tool",
            IF call.name \in Functions THEN ToolCallContent(p, call)
            ELSE McpToolCallContent(call),
            call.name, id)

\* the plan after the handler of the call has run
AfterHandler(p, call) ==
    IF call.name = "mark_step" /\ call.parses
    THEN mark_step_tool(p, MarkIndex(call), "completed", "note")
    ELSE p

\* _process_response returns the content of a terminate or mark_step result
EndsLoop(m) == m.name \in {"terminate", "mark_step"}

ActorInit ==
    /\ plan = create_plan(NewPlan, CreateTitle, <<"a">>, EmptyDict)
    /\ agent = [at |-> "act", i |-> 0, history |-> <<>>,
                llm_failed |-> FALSE, result |-> ""]
    /\ pc = "wave"
    /\ retry_count = 0
    /\ replan_try = 0
    /\ ready = <<0>>
    /\ spawned = 1
    /\ tpc = <<>>
    /\ tl = <<>>
    /\ semaphore = 0
    /\ result_queue = {}
    /\ results = <<>>
    /\ llm = Idle

\* act: mark_step(step_index, "in_progress"); the prompt joins the history
ActorBegin ==
    /\ agent.at = "act"
    /\ plan' = mark_step_status(plan, 0, "in_progress")
    /\ agent' = [agent EXCEPT !.at = "loop",
                              !.history = <<Message("user", "prompt", "", 0)>>]
    /\ UNCHANGED rest

\* execute, round i: create_with_tools raises; "except Exception" writes
\* the error over the content of the last message and continues
RoundLLMFails ==
    /\ agent.at = "loop"
    /\ agent.i < MaxIteration
    /\ agent' = [agent EXCEPT !.i = @ + 1,
                              !.llm_failed = TRUE,
                              !.history[Len(agent.history)].content = LLMErrorHint]
    /\ UNCHANGED <<plan, rest>>

\* execute, round i: a response without tool call; a content that is not
\* empty is returned
RoundNoToolCall ==
    /\ agent.at = "loop"
    /\ agent.i < MaxIteration
    /\ \E content \in {"answer", ""} :
          agent' = [agent EXCEPT
                       !.history = Append(@, Message("assistant", content, "", 0)),
                       !.i = IF content = "" THEN @ + 1 ELSE @,
                       !.result = content,
                       !.at = IF content = "" THEN "loop" ELSE "post"]
    /\ UNCHANGED <<plan, rest>>

\* execute, round i: a response with a tool call; the call is dispatched,
\* recorded on the step and its message joins the history
RoundToolCall ==
    /\ agent.at = "loop"
    /\ agent.i < MaxIteration
    /\ \E call \in ToolCalls :
          LET id == agent.i + 1
              m == ToolMessage(plan, call, id)
          IN  /\ plan' = record_tool_execution(AfterHandler(plan, call), 0,
                                               m.name, m.content)
              /\ agent' = [agent EXCEPT
                              !.history = @ \o <<Message("assistant", "", "", id), m>>,
                              !.i = IF EndsLoop(m) THEN @ ELSE @ + 1,
                              !.result = IF EndsLoop(m) THEN m.content ELSE @,
                              !.at = IF EndsLoop(m) THEN "post" ELSE "loop"]
    /\ UNCHANGED rest

\* _handle_max_iteration: create_with_tools raises, and "except Exception"
\* of act marks the step blocked and returns str(e)
MaxIterationLLMFails ==
    /\ agent.at = "loop"
    /\ agent.i = MaxIteration
    /\ plan' = mark_step(plan, 0, "blocked", LLMError)
    /\ agent' = [agent EXCEPT
                    !.history = Append(@, Message("user", "summarize", "", 0)),
                    !.llm_failed = TRUE,
                    !.result = LLMError,
                    !.at = "return"]
    /\ UNCHANGED rest

\* _handle_max_iteration: the response is processed without the plan, so
\* that a tool call is dispatched and not recorded
MaxIterationResponse ==
    /\ agent.at = "loop"
    /\ agent.i = MaxIteration
    /\ LET h == Append(agent.history, Message("user", "summarize", "", 0))
       IN  \/ /\ \E content \in {"answer", ""} :
                    agent' = [agent EXCEPT
                                 !.history = Append(h, Message("assistant", content, "", 0)),
                                 !.result = content,
                                 !.at = "post"]
              /\ UNCHANGED plan
           \/ \E call \in ToolCalls :
                 LET id == agent.i + 1
                     m == ToolMessage(plan, call, id)
                 IN  /\ plan' = AfterHandler(plan, call)
                     /\ agent' = [agent EXCEPT
                                     !.history = h \o <<Message("assistant", "", "", id), m>>,
                                     !.result = m.content,
                                     !.at = "post"]
    /\ UNCHANGED rest

\* "if status == in_progress: mark_step(step_index, completed, str(result))"
ActorPost ==
    /\ agent.at = "post"
    /\ plan' = IF StatusAt(plan, 0) = "in_progress"
               THEN mark_step(plan, 0, "completed", agent.result)
               ELSE plan
    /\ agent' = [agent EXCEPT !.at = "fact"]
    /\ UNCHANGED rest

\* update_fact: chat_to_llm returns and act returns the result of execute
ActorFact ==
    /\ agent.at = "fact"
    /\ plan' = update_facts(plan, {0})
    /\ agent' = [agent EXCEPT
                    !.history = @ \o <<Message("user", "facts prompt", "", 0),
                                       Message("assistant", "facts", "", 0)>>,
                    !.at = "return"]
    /\ UNCHANGED rest

\* update_fact: chat_to_llm raises, and "except Exception" of act marks the
\* step blocked and returns str(e)
ActorFactFails ==
    /\ agent.at = "fact"
    /\ plan' = mark_step(plan, 0, "blocked", LLMError)
    /\ agent' = [agent EXCEPT
                    !.history = Append(@, Message("user", "facts prompt", "", 0)),
                    !.llm_failed = TRUE,
                    !.result = LLMError,
                    !.at = "return"]
    /\ UNCHANGED rest

ActorNext ==
    \/ ActorBegin
    \/ RoundLLMFails
    \/ RoundNoToolCall
    \/ RoundToolCall
    \/ MaxIterationLLMFails
    \/ MaxIterationResponse
    \/ ActorPost
    \/ ActorFact
    \/ ActorFactFails

ActorSpec == ActorInit /\ [][ActorNext]_vars

\* ====================================================================
\* One BaseAgent._process_response on a response with tool calls: every
\* call is submitted to the ThreadPoolExecutor, the handlers complete in
\* any order, and _execute_tool_calls collects the futures.
\* ====================================================================
NotDone == [role |-> "none"]

\* tool_calls of a response; the id of a call is its place in the array
CallLists == SeqsUpTo(ToolCalls, MaxCalls) \ {<<>>}

DispatchInit ==
    /\ plan = mark_step_status(create_plan(NewPlan, CreateTitle, <<"a">>, EmptyDict),
                               0, "in_progress")
    /\ \E calls \in CallLists :
          agent = [at |-> "response", calls |-> calls,
                   futures |-> [k \in 1..Len(calls) |-> NotDone],
                   completed |-> <<>>, results |-> <<>>,
                   history |-> <<Message("user", "prompt", "", 0)>>]
    /\ pc = "wave"
    /\ retry_count = 0
    /\ replan_try = 0
    /\ ready = <<0>>
    /\ spawned = 1
    /\ tpc = <<>>
    /\ tl = <<>>
    /\ semaphore = 0
    /\ result_queue = {}
    /\ results = <<>>
    /\ llm = Idle

\* _process_response appends the assistant message with the tool_calls and
\* _execute_tool_calls submits one future per call, in the order of the array
Submit ==
    /\ agent.at = "response"
    /\ agent' = [agent EXCEPT !.at = "futures",
                              !.history = Append(@, Message("assistant", "", "", 0))]
    /\ UNCHANGED <<plan, rest>>

\* the handler of call k returns in its worker thread: _execute_tool_call
\* or _execute_mcp_tool_call gives the tool message with the id of the call
HandlerReturns(k) ==
    /\ agent.at = "futures"
    /\ k \in DOMAIN agent.futures
    /\ agent.futures[k] = NotDone
    /\ plan' = AfterHandler(plan, agent.calls[k])
    /\ agent' = [agent EXCEPT !.futures[k] = ToolMessage(plan, agent.calls[k], k),
                              !.completed = Append(@, k)]
    /\ UNCHANGED rest

\* results are appended as the handlers complete
Collect_completion_order ==
    /\ agent.at = "futures"
    /\ \E k \in DOMAIN agent.futures :
          /\ agent.futures[k] # NotDone
          /\ \A j \in DOMAIN agent.results :
                 agent.results[j].tool_call_id # k
          /\ plan' = record_tool_execution(plan, 0, agent.futures[k].name,
                                           agent.futures[k].content)
          /\ agent' = [agent EXCEPT !.results = Append(@, agent.futures[k])]
    /\ UNCHANGED rest

\* "for future in futures: result = future.result()": the futures are
\* taken in the order of submission, each one waited for; the result is
\* appended and recorded on the step
Collect ==
    /\ agent.at = "futures"
    /\ LET k == Len(agent.results) + 1
       IN  /\ k \in DOMAIN agent.futures
           /\ agent.futures[k] # NotDone
           /\ plan' = record_tool_execution(plan, 0, agent.futures[k].name,
                                            agent.futures[k].content)
           /\ agent' = [agent EXCEPT !.results = Append(@, agent.futures[k])]
    /\ UNCHANGED rest

\* "messages.extend(results)" once every future has been collected
Extend ==
    /\ agent.at = "futures"
    /\ Len(agent.results) = Len(agent.calls)
    /\ agent' = [agent EXCEPT !.at = "extended",
                              !.history = @ \o agent.results]
    /\ UNCHANGED <<plan, rest>>

DispatchNext ==
    \/ Submit
    \/ \E k \in 1..MaxCalls : HandlerReturns(k)
    \/ Collect
    \/ Extend

DispatchSpec == DispatchInit /\ [][DispatchNext]_vars

\* ====================================================================
\* ChatLLM: the history a call sends. A message is its role, the number
\* of its tool_calls, the length of its content, the marker a truncation
\* has put behind the content and the tag a summary starts with; the
\* tokenizer gives one token for each character.
\* ====================================================================
\* configuration of ChatLLM.__init__ (environment variables)
MaxMessages == 20              \* MAX_MESSAGES
MaxToolContentLength == 5      \* MAX_TOOL_CONTENT_LENGTH
MaxContextTokens == 50         \* MAX_CONTEXT_TOKENS
KeepInitialTurns == 1          \* KEEP_INITIAL_TURNS
KeepRecentTurns == 1           \* KEEP_RECENT_TURNS
\* int(self.max_context_tokens * self.compression_threshold), threshold 0.8
ThresholdTokens == (MaxContextTokens * 8) \div 10

NoMarker == <<>>
TagEnglish == "[Compressed Summary]"
TagChinese == "[Ya Suo Zhai Yao]"      \* the four Chinese characters of the tag

Msg(role, tool_calls, len) ==
    [role |-> role, tool_calls |-> tool_calls, len |-> len,
     marker |-> NoMarker, tag |-> ""]

\* content lengths of a tool message: under and over the cap
ContentLens == {1, 10}

\* the groups of a history: a user message, an assistant message without
\* tool call, an assistant message with its tool responses
GroupKinds ==
    {<<Msg("user", 0, 1)>>, <<Msg("assistant", 0, 1)>>,
     <<Msg("assistant", 2, 1), Msg("tool", 0, 1), Msg("tool", 0, 1)>>}
    \cup {<<Msg("assistant", 1, 1), Msg("tool", 0, l)>> : l \in ContentLens}

RECURSIVE Flatten(_)
Flatten(groups) ==
    IF groups = <<>> THEN <<>> ELSE Head(groups) \o Flatten(Tail(groups))

HistoriesOf(n) ==
    {sys \o Flatten(gs) : sys \in {<<>>, <<Msg("system", 0, 1)>>},
                          gs \in SeqsUpTo(GroupKinds, n)}

Histories == HistoriesOf(MaxGroups)

\* messages[-n:]
LastN(s, n) == IF n = 0 \/ Len(s) <= n THEN s ELSE SubSeq(s, Len(s) - n + 1, Len(s))
\* messages[:n]
FirstN(s, n) == SubSeq(s, 1, Min(n, Len(s)))
\* messages[a:-n]
Between(s, a, n) ==
    IF n = 0 THEN <<>> ELSE SubSeq(s, a + 1, Len(s) - n)

IsSystem(m) == m.role = "system"
NotSystem(m) == m.role # "system"

\* ChatLLM._count_tokens: 4 for each message, the tokens of its strings and
\* of the name and the arguments of each tool call, and 2 for the list
RECURSIVE _count_tokens(_)
_count_tokens(messages) ==
    IF messages = <<>> THEN 2
    ELSE 4 + Head(messages).len + 2 * Head(messages).tool_calls
         + _count_tokens(Tail(messages))

\* ChatLLM._build_message_groups; acc is <<groups, current_group>>
BuildStep(acc, msg) ==
    LET groups == acc[1]
        current == acc[2]
        saved == IF current # <<>> THEN Append(groups, current) ELSE groups
    IN  IF msg.role = "tool" /\ current # <<>> /\ current[1].role = "assistant"
        THEN <<groups, Append(current, msg)>>
        ELSE <<saved, <<msg>>>>

RECURSIVE BuildFrom(_, _, _)
BuildFrom(messages, k, acc) ==
    IF k > Len(messages)
    THEN IF acc[2] # <<>> THEN Append(acc[1], acc[2]) ELSE acc[1]
    ELSE BuildFrom(messages, k + 1, BuildStep(acc, messages[k]))

_build_message_groups(messages) == BuildFrom(messages, 1, <<<<>>, <<>>>>)

\* ChatLLM._emergency_truncate: the loop over reversed(message_groups);
\* kept holds the groups behind the system messages
RECURSIVE EmergencyLoop(_, _, _, _, _)
EmergencyLoop(system, groups, k, kept, target) ==
    IF k = 0 THEN system \o kept
    ELSE IF _count_tokens(system \o kept \o groups[k]) <= target
         THEN EmergencyLoop(system, groups, k - 1, groups[k] \o kept, target)
         ELSE system \o kept

_emergency_truncate(messages, target_ratio_tenths) ==
    LET target_tokens == (MaxContextTokens * target_ratio_tenths) \div 10
        groups == _build_message_groups(SelectSeq(messages, NotSystem))
    IN  IF _count_tokens(messages) <= target_tokens THEN messages
        ELSE EmergencyLoop(SelectSeq(messages, IsSystem), groups, Len(groups),
                           <<>>, target_tokens)

\* _format_messages_for_compression starts every line of a user, assistant
\* or tool message with Chinese characters, and _compress_message_group
\* looks for Chinese characters in the first 100 characters of the text
is_chinese(messages) ==
    \E k \in 1..Len(messages) :
        /\ messages[k].role \in {"user", "assistant", "tool"}
        /\ \A j \in 1..(k - 1) : messages[j].role \notin {"user", "assistant", "tool"}

\* what chat_to_llm gives for the summary: a text of some length, a text
\* shorter than 10 characters, or an exception
SummaryOutcomes == {[ok |-> TRUE, len |-> 12], [ok |-> TRUE, len |-> 30],
                    [ok |-> TRUE, len |-> 3], [ok |-> FALSE, len |-> 0]}

\* ChatLLM._compress_message_group
_compress_message_group(messages, summary) ==
    IF messages = <<>> THEN <<>>
    ELSE IF summary.ok /\ summary.len >= 10
         THEN <<[Msg("assistant", 0, summary.len) EXCEPT
                    !.tag = IF is_chinese(messages) THEN TagChinese ELSE TagEnglish]>>
         ELSE IF Len(messages) > 5 THEN LastN(messages, 5) ELSE messages

\* ChatLLM._compress_context with self.keep_initial_turns and
\* self.keep_recent_turns as they are configured
CompressContextWith(messages0, summary, keep_initial_turns, keep_recent_turns) ==
    LET messages == IF _count_tokens(messages0) > MaxContextTokens
                    THEN _emergency_truncate(messages0, 9)
                    ELSE messages0
        system_messages == SelectSeq(messages, IsSystem)
        message_groups == _build_message_groups(SelectSeq(messages, NotSystem))
        initial_messages == Flatten(FirstN(message_groups, keep_initial_turns))
        recent_messages == Flatten(LastN(message_groups, keep_recent_turns))
        middle_messages == Flatten(Between(message_groups, keep_initial_turns,
                                           keep_recent_turns))
    IN  IF Len(message_groups) <= keep_initial_turns + keep_recent_turns
        THEN messages
        ELSE system_messages \o initial_messages
             \o _compress_message_group(middle_messages, summary)
             \o recent_messages

\* ChatLLM._compress_context
_compress_context(messages0, summary) ==
    CompressContextWith(messages0, summary, KeepInitialTurns, KeepRecentTurns)

\* the length of the marker text "[... N ..., ... M ...]" with its two newlines
MarkerLength == 2

\* _truncate_messages: the cut of the content of a tool message; the new
\* content is the first max_tool_content_length characters and the marker,
\* which names the length the content had
CutToolContent(m) ==
    IF m.role = "tool" /\ m.len > MaxToolContentLength
    THEN [m EXCEPT !.len = MaxToolContentLength + MarkerLength,
                   !.marker = <<m.len, MaxToolContentLength>>]
    ELSE m

CutAll(messages) == [k \in 1..Len(messages) |-> CutToolContent(messages[k])]

\* _truncate_messages: its own grouping, which removes a tool message that
\* follows no assistant message with tool_calls
TruncStep(acc, msg) ==
    LET groups == acc[1]
        current == acc[2]
        saved == IF current # <<>> THEN Append(groups, current) ELSE groups
    IN  IF msg.role = "tool"
        THEN IF current # <<>> /\ current[1].role = "assistant"
                  /\ current[1].tool_calls > 0
             THEN <<groups, Append(current, msg)>>
             ELSE acc
        ELSE <<saved, <<msg>>>>

RECURSIVE TruncFrom(_, _, _)
TruncFrom(messages, k, acc) ==
    IF k > Len(messages)
    THEN IF acc[2] # <<>> THEN Append(acc[1], acc[2]) ELSE acc[1]
    ELSE TruncFrom(messages, k + 1, TruncStep(acc, messages[k]))

\* _truncate_messages: the loop over reversed(message_groups)
RECURSIVE TruncLoop(_, _, _, _)
TruncLoop(groups, k, kept, max_messages) ==
    IF k = 0 THEN kept
    ELSE LET group == groups[k]
             remaining == max_messages - Len(kept)
         IN  IF Len(kept) + Len(group) <= max_messages
             THEN TruncLoop(groups, k - 1, group \o kept, max_messages)
             ELSE IF group[1].role = "assistant" /\ group[1].tool_calls > 0
                  THEN kept
                  ELSE IF remaining > 0 THEN FirstN(group, remaining) \o kept
                       ELSE kept

\* ChatLLM._truncate_messages with self.max_messages = max_messages
_truncate_messages(messages, max_messages) ==
    LET system_messages == SelectSeq(messages, IsSystem)
        non_system_messages == SelectSeq(messages, NotSystem)
        groups == TruncFrom(non_system_messages, 1, <<<<>>, <<>>>>)
    IN  IF Len(non_system_messages) <= max_messages
        THEN system_messages \o CutAll(non_system_messages)
        ELSE system_messages \o CutAll(TruncLoop(groups, Len(groups), <<>>, max_messages))

\* ChatLLM._should_compress_context
_should_compress_context(messages, compression_enabled) ==
    /\ compression_enabled
    /\ _count_tokens(messages) >= ThresholdTokens

\* create_with_tools and chat_to_llm up to the call of the API: the messages
\* the call sends
MessagesToSend(messages, compression_enabled, summary) ==
    IF _should_compress_context(messages, compression_enabled)
    THEN _compress_context(messages, summary)
    ELSE messages

\* --- the four functions applied to every history
HistoryInit ==
    /\ llm \in [op : {"none"}, messages : Histories, out : {<<>>},
                summary : {<<>>}]
    /\ plan = NewPlan
    /\ pc = "create"
    /\ retry_count = 0
    /\ replan_try = 0
    /\ ready = <<>>
    /\ spawned = 0
    /\ tpc = <<>>
    /\ tl = <<>>
    /\ semaphore = 0
    /\ result_queue = {}
    /\ results = <<>>
    /\ agent = Idle

manus == <<plan, pc, retry_count, replan_try, ready, spawned, tpc, tl,
           semaphore, result_queue, results, agent>>

CallEmergencyTruncate ==
    /\ llm.op = "none"
    /\ llm' = [llm EXCEPT !.op = "_emergency_truncate",
                          !.out = _emergency_truncate(llm.messages, 9)]
    /\ UNCHANGED manus

CallCompressContext ==
    /\ llm.op = "none"
    /\ \E summary \in SummaryOutcomes :
          llm' = [llm EXCEPT !.op = "_compress_context",
                             !.summary = summary,
                             !.out = _compress_context(llm.messages, summary)]
    /\ UNCHANGED manus

CallTruncateMessages ==
    /\ llm.op = "none"
    /\ \E max_messages \in {5, MaxMessages} :
          llm' = [llm EXCEPT !.op = "_truncate_messages",
                             !.out = _truncate_messages(llm.messages, max_messages)]
    /\ UNCHANGED manus

CallSend ==
    /\ llm.op = "none"
    /\ \E compression_enabled \in BOOLEAN, summary \in SummaryOutcomes :
          llm' = [llm EXCEPT
                     !.op = IF compression_enabled THEN "send, compression enabled"
                            ELSE "send",
                     !.summary = summary,
                     !.out = MessagesToSend(llm.messages, compression_enabled, summary)]
    /\ UNCHANGED manus

HistoryNext ==
    \/ CallEmergencyTruncate
    \/ CallCompressContext
    \/ CallTruncateMessages
    \/ CallSend

HistorySpec == HistoryInit /\ [][HistoryNext]_vars

\* --- _emergency_truncate on histories whose system prompt is short or long
\* a system prompt of more than int(0.9 * max_context_tokens) tokens
LongSystem == Msg("system", 0, MaxContextTokens - 5)

LongHistories ==
    Histories \cup {<<LongSystem>> \o Flatten(gs) : gs \in SeqsUpTo(GroupKinds, MaxGroups)}

EmergencyInit ==
    /\ llm \in [op : {"none"}, messages : LongHistories, out : {<<>>},
                summary : {<<>>}]
    /\ plan = NewPlan
    /\ pc = "create"
    /\ retry_count = 0
    /\ replan_try = 0
    /\ ready = <<>>
    /\ spawned = 0
    /\ tpc = <<>>
    /\ tl = <<>>
    /\ semaphore = 0
    /\ result_queue = {}
    /\ results = <<>>
    /\ agent = Idle

EmergencyNext ==
    \/ CallEmergencyTruncate
    \/ CallCompressContext

EmergencySpec == EmergencyInit /\ [][EmergencyNext]_vars

\* --- _compress_context under every configuration of the two turn counts
\* values of KEEP_INITIAL_TURNS and KEEP_RECENT_TURNS
TurnCounts == 0..2

ConfigInit ==
    /\ llm \in [op : {"none"}, messages : Histories, out : {<<>>},
                summary : {<<>>}, keep_initial_turns : TurnCounts,
                keep_recent_turns : TurnCounts]
    /\ plan = NewPlan
    /\ pc = "create"
    /\ retry_count = 0
    /\ replan_try = 0
    /\ ready = <<>>
    /\ spawned = 0
    /\ tpc = <<>>
    /\ tl = <<>>
    /\ semaphore = 0
    /\ result_queue = {}
    /\ results = <<>>
    /\ agent = Idle

CallCompressConfigured ==
    /\ llm.op = "none"
    /\ \E summary \in SummaryOutcomes :
          llm' = [llm EXCEPT !.op = "_compress_context",
                             !.summary = summary,
                             !.out = CompressContextWith(llm.messages, summary,
                                                         llm.keep_initial_turns,
                                                         llm.keep_recent_turns)]
    /\ UNCHANGED manus

ConfigNext == CallCompressConfigured

ConfigSpec == ConfigInit /\ [][ConfigNext]_vars

\* ====================================================================
\* ChatLLM.create_with_tools, attempt by attempt
\* ====================================================================
\* str(e) of what an attempt raises, by the branch that handles it
ErrContextLength == "maximum context length exceeded"
ErrTimeout == "timeout"
ErrJson == "JSONDecodeError"
ErrResponse == "error response"
RaisedErrors == {ErrContextLength, ErrTimeout, ErrJson}

\* response is None
NoResponse == [id |-> -1, choices |-> FALSE, is_completion |-> FALSE,
               arguments |-> <<>>]
NotRaised == [type |-> "", reason |-> ""]

\* the arguments strings of the tool calls of a response
ArgumentLists == SeqsUpTo({"valid", "malformed"}, MaxCalls)

\* json.loads(arguments) returns
Parses(arguments) == arguments \in {"valid", "fixed", "{}"}

RetryInit ==
    /\ llm \in [at : {"prepare"}, messages : HistoriesOf(1),
                max_messages : {MaxMessages}, attempt : {0}, calls : {0},
                fix_attempt : {0}, repairs : {0}, response : {NoResponse},
                last_error : {""}, returned : {NoResponse}, raised : {NotRaised}]
    /\ plan = NewPlan
    /\ pc = "create"
    /\ retry_count = 0
    /\ replan_try = 0
    /\ ready = <<>>
    /\ spawned = 0
    /\ tpc = <<>>
    /\ tl = <<>>
    /\ semaphore = 0
    /\ result_queue = {}
    /\ results = <<>>
    /\ agent = Idle

\* where "for attempt in range(max_retries)" goes with the next attempt
AttemptOrAfter(attempt) == IF attempt = MaxRetries THEN "after" ELSE "attempt"

\* the "except json.JSONDecodeError" and "except Exception" branches for the
\* error e of the attempt in l
Handled(l, e) ==
    IF e = ErrJson
    THEN IF l.attempt = MaxRetries - 1
         THEN [l EXCEPT !.at = "raised",
                        !.raised = [type |-> "ZaeFrameworkException", reason |-> e]]
         ELSE [l EXCEPT !.attempt = @ + 1]
    ELSE IF e = ErrContextLength
         THEN LET max_messages == IF l.max_messages - 5 > 5
                                  THEN l.max_messages - 5 ELSE 5
              IN  [l EXCEPT !.max_messages = max_messages,
                            !.messages = _truncate_messages(l.messages, max_messages),
                            !.attempt = @ + 1,
                            !.at = AttemptOrAfter(l.attempt + 1)]
         ELSE IF l.attempt = MaxRetries - 1
              THEN [l EXCEPT !.at = "raised",
                             !.raised = [type |-> "ZaeFrameworkException", reason |-> e]]
              ELSE [l EXCEPT !.attempt = @ + 1]

\* lines 587-602: the history is compressed when it has to be
Prepare ==
    /\ llm.at = "prepare"
    /\ \E compression_enabled \in BOOLEAN, summary \in SummaryOutcomes :
          llm' = [llm EXCEPT
                     !.at = "attempt",
                     !.messages = MessagesToSend(llm.messages, compression_enabled, summary)]
    /\ UNCHANGED manus

\* an attempt: client.chat.completions.create raises
CreateRaises ==
    /\ llm.at = "attempt"
    /\ \E e \in RaisedErrors :
          llm' = Handled([llm EXCEPT !.calls = @ + 1, !.last_error = e], e)
    /\ UNCHANGED manus

\* an attempt: the response has no choices, and the attempt raises
\* Exception(response.message) or Exception(response)
CreateNoChoices ==
    /\ llm.at = "attempt"
    /\ \E e \in {ErrContextLength, ErrResponse}, is_completion \in BOOLEAN :
          llm' = Handled([llm EXCEPT
                             !.calls = @ + 1,
                             !.last_error = e,
                             !.response = [id |-> llm.attempt, choices |-> FALSE,
                                           is_completion |-> is_completion,
                                           arguments |-> <<>>]], e)
    /\ UNCHANGED manus

\* an attempt: the response has choices; check_and_fix_tool_call_params
\* looks at it when the message has tool calls
CreateReturns ==
    /\ llm.at = "attempt"
    /\ \E arguments \in ArgumentLists :
          llm' = [llm EXCEPT
                     !.calls = @ + 1,
                     !.response = [id |-> llm.attempt, choices |-> TRUE,
                                   is_completion |-> TRUE, arguments |-> arguments],
                     !.fix_attempt = 0,
                     !.repairs = 0,
                     !.at = IF arguments = <<>> THEN "after" ELSE "fix"]
    /\ UNCHANGED manus

\* check_and_fix_tool_call_params: json.loads(tool_calls[0] arguments) returns
FixParses ==
    /\ llm.at = "fix"
    /\ Parses(llm.response.arguments[1])
    /\ llm' = [llm EXCEPT !.at = "after"]
    /\ UNCHANGED manus

\* check_and_fix_tool_call_params: chat_to_llm returns a string that parses
FixRepaired ==
    /\ llm.at = "fix"
    /\ ~Parses(llm.response.arguments[1])
    /\ llm' = [llm EXCEPT !.response.arguments[1] = "fixed",
                          !.repairs = @ + 1,
                          !.at = "after"]
    /\ UNCHANGED manus

\* check_and_fix_tool_call_params: chat_to_llm raises or returns a string
\* that does not parse; the third failure puts "{}"
FixFails ==
    /\ llm.at = "fix"
    /\ ~Parses(llm.response.arguments[1])
    /\ llm' = IF llm.fix_attempt = MaxRepairs - 1
              THEN [llm EXCEPT !.response.arguments[1] = "{}",
                               !.repairs = @ + 1,
                               !.at = "after"]
              ELSE [llm EXCEPT !.repairs = @ + 1, !.fix_attempt = @ + 1]
    /\ UNCHANGED manus

\* behind the loop: "if response and isinstance(response, ChatCompletion)"
AfterLoop ==
    /\ llm.at = "after"
    /\ llm' = IF llm.response # NoResponse /\ llm.response.is_completion
              THEN IF llm.response.choices
                   THEN [llm EXCEPT !.at = "returned", !.returned = llm.response]
                   ELSE [llm EXCEPT !.at = "raised",
                                    !.raised = [type |-> "IndexError", reason |-> ""]]
              ELSE [llm EXCEPT !.at = "raised",
                               !.raised = [type |-> "ZaeFrameworkException",
                                           reason |-> "LLM response"]]
    /\ UNCHANGED manus

RetryNext ==
    \/ Prepare
    \/ CreateRaises
    \/ CreateNoChoices
    \/ CreateReturns
    \/ FixParses
    \/ FixRepaired
    \/ FixFails
    \/ AfterLoop

\* the thread that called create_with_tools keeps running
RetrySpec == RetryInit /\ [][RetryNext]_vars /\ WF_vars(RetryNext)

\* ====================================================================
\* ChatLLM.chat_to_llm: the same preparation of the history, then one
\* client.chat.completions.create outside any try
\* ====================================================================
ChatInit ==
    /\ llm \in [at : {"prepare"}, messages : HistoriesOf(2),
                max_messages : {MaxMessages}, attempt : {0}, calls : {0},
                fix_attempt : {0}, repairs : {0}, response : {NoResponse},
                last_error : {""}, returned : {NoResponse}, raised : {NotRaised}]
    /\ plan = NewPlan
    /\ pc = "create"
    /\ retry_count = 0
    /\ replan_try = 0
    /\ ready = <<>>
    /\ spawned = 0
    /\ tpc = <<>>
    /\ tl = <<>>
    /\ semaphore = 0
    /\ result_queue = {}
    /\ results = <<>>
    /\ agent = Idle

\* the call of the API raises, and the exception leaves chat_to_llm
ChatRaises ==
    /\ llm.at = "attempt"
    /\ \E e \in RaisedErrors :
          llm' = [llm EXCEPT !.calls = @ + 1,
                             !.last_error = e,
                             !.at = "raised",
                             !.raised = [type |-> "APIError", reason |-> e]]
    /\ UNCHANGED manus

\* the call of the API returns: "return response.choices[0].message.content"
\* raises for a response without choices
ChatReturns ==
    /\ llm.at = "attempt"
    /\ \E choices \in BOOLEAN :
          LET response == [id |-> llm.attempt, choices |-> choices,
                           is_completion |-> TRUE, arguments |-> <<>>]
          IN  llm' = IF choices
                     THEN [llm EXCEPT !.calls = @ + 1, !.response = response,
                                      !.at = "returned", !.returned = response]
                     ELSE [llm EXCEPT !.calls = @ + 1, !.response = response,
                                      !.at = "raised",
                                      !.raised = [type |-> "IndexError", reason |-> ""]]
    /\ UNCHANGED manus

ChatNext ==
    \/ Prepare
    \/ ChatRaises
    \/ ChatReturns

ChatSpec == ChatInit /\ [][ChatNext]_vars

\* ====================================================================
\* Properties
\* ====================================================================
Idx(p) == 0..(Len(p.steps) - 1)

RECURSIVE Ascending(_)
Ascending(S) ==
    IF S = {} THEN <<>>
    ELSE LET m == CHOOSE x \in S : \A y \in S : x <= y
         IN  <<m>> \o Ascending(S \ {m})

\* the ready predicate of the specification
IsReady(p, i) ==
    /\ StatusAt(p, i) = "not_started"
    /\ LET deps == Get(p.dependencies, i, <<>>)
       IN  \A k \in 1..Len(deps) :
              IndexOK(p.steps, deps[k]) /\ StatusAt(p, deps[k]) # "not_started"

\* C1: in every plan state get_ready_steps returns (it does not raise)
\* exactly the not_started indices whose dependencies all left not_started,
\* in ascending order.
C1_ReadyStepsExact ==
    /\ ~get_ready_steps(plan).raised
    /\ get_ready_steps(plan).val = Ascending({i \in Idx(plan) : IsReady(plan, i)})

\* the indices reached from i along one or more dependency edges
DepEdges(p, S) ==
    UNION {Range(p.dependencies[k]) : k \in S \cap DOMAIN p.dependencies}

RECURSIVE ReachFrom(_, _, _)
ReachFrom(p, S, n) ==
    IF n = 0 THEN S ELSE ReachFrom(p, S \cup DepEdges(p, S), n - 1)

DepNodes(p) == (DOMAIN p.dependencies) \cup DepEdges(p, DOMAIN p.dependencies)

\* C2: in every reachable state the dependency graph has no cycle (and no
\* self-dependency).
C2_DepsAcyclic ==
    \A i \in DepNodes(plan) :
        i \notin ReachFrom(plan, DepEdges(plan, {i}), Cardinality(DepNodes(plan)))

\* C3: in every reachable state every index in dependencies, key or list
\* element, is an index of the step list.
C3_DepsInRange ==
    \A i \in DepNodes(plan) : 0 <= i /\ i < Len(plan.steps)

\* the moves of the status path not_started -> in_progress -> (completed | blocked)
Forward(a, b) ==
    \/ a = b
    \/ a = "not_started" /\ b = "in_progress"
    \/ a = "in_progress" /\ b \in {"completed", "blocked"}

\* C4: the status of every step index only moves forward along
\* not_started -> in_progress -> (completed | blocked), except for a blocked
\* step whose description a re-plan replaces, which restarts at not_started
\* (stated for moves between the four statuses of the data model).
C4_StatusMonotonic ==
    [][\A i \in Idx(plan) \cap Idx(plan') :
          \/ StatusAt(plan, i) \notin ValidStatuses
          \/ StatusAt(plan', i) \notin ValidStatuses
          \/ Forward(StatusAt(plan, i), StatusAt(plan', i))
          \/ /\ pc = "replan"
             /\ At(plan.steps, i) # At(plan'.steps, i)
             /\ StatusAt(plan, i) = "blocked"
             /\ StatusAt(plan', i) = "not_started"]_vars

\* C5: in every reachable state the status of every step is one of
\* not_started, in_progress, completed, blocked.
C5_StatusValid ==
    \A d \in DOMAIN plan.step_statuses : plan.step_statuses[d] \in ValidStatuses

\* a step that applies Plan.update to the plan
UpdateStep == pc' = "update" \/ (pc = "replan" /\ plan' # plan)

\* C6: after an update, a listed description that was in the old list with
\* a status other than not_started keeps its status, notes and tool
\* records; a listed description that was not in the old list has status
\* not_started, empty notes and no tool record.
C6_UpdatePreserves ==
    [][UpdateStep =>
          \A d \in Range(plan'.steps) :
             /\ (d \in Started(plan)) =>
                   /\ plan'.step_statuses[d] = plan.step_statuses[d]
                   /\ plan'.step_notes[d] = plan.step_notes[d]
                   /\ plan'.step_tools[d] = plan.step_tools[d]
             /\ (d \notin Range(plan.steps)) =>
                   /\ plan'.step_statuses[d] = "not_started"
                   /\ plan'.step_notes[d] = ""
                   /\ plan'.step_tools[d] = <<>>]_vars

\* an update has just been applied and its list holds a finished step that
\* kept its notes and tool records next to a step that starts afresh
C6_Witness ==
    /\ pc = "update"
    /\ \E d, e \in Range(plan.steps) :
          /\ plan.step_statuses[d] \in {"completed", "blocked"}
          /\ plan.step_notes[d] # ""
          /\ plan.step_tools[d] # <<>>
          /\ plan.step_statuses[e] = "not_started"
          /\ plan.step_notes[e] = ""
          /\ plan.step_tools[e] = <<>>

C8_HistoryMonotonicByIndex ==
    [][\A i \in Idx(plan) \cap Idx(plan') :
          Len(plan'.step_tools[At(plan'.steps, i)])
             >= Len(plan.step_tools[At(plan.steps, i)])]_vars

\* C8 amended: per step description, the number of tool records never
\* decreases across record_tool_execution, mark_step and update_facts, nor
\* across an update that lists the description while its status is other
\* than not_started.
C8_HistoryMonotonicByDescription ==
    [][\A d \in (DOMAIN plan.step_tools) \cap (DOMAIN plan'.step_tools) :
          (UpdateStep => d \in Started(plan))
             => Len(plan'.step_tools[d]) >= Len(plan.step_tools[d])]_vars

\* an update has just put a new step in front of a started step, which
\* kept its tool records at its new index
C8_Witness ==
    /\ pc = "update"
    /\ Len(plan.steps) = 2
    /\ plan.steps[1] # plan.steps[2]
    /\ plan.step_statuses[plan.steps[1]] = "not_started"
    /\ plan.step_tools[plan.steps[1]] = <<>>
    /\ plan.step_statuses[plan.steps[2]] # "not_started"
    /\ Len(plan.step_tools[plan.steps[2]]) = MaxTools


\* C9: no two Plan mutations are in progress at the same time: at most one
\* thread is between the two writes of a mark_step.
C9_MutualExclusion ==
    Cardinality({t \in DOMAIN tpc : tpc[t] = "mark_notes"}) <= 1

\* threads between semaphore.acquire() and semaphore.release()
Running == {t \in DOMAIN tpc : tpc[t] \notin {"start", "done"}}

Waiting(t) == t \in DOMAIN tpc /\ tpc[t] = "start"

C10_Bound == pc = "wave" => Cardinality(Running) <= Min(MaxParallel, Len(ready))

\* a worker leaves the wait for the semaphore only by acquiring it
AcquiredOnLeave ==
    \A t \in DOMAIN tpc :
        (Waiting(t) /\ t \in DOMAIN tpc' /\ tpc'[t] # "start") => tpc'[t] = "act"

\* C10: during execute_steps at most min(5, |R|) Actors are between acquire
\* and release, and every worker that waits for the semaphore eventually
\* runs: a waiting worker stops waiting only by acquiring the semaphore, and
\* whenever workers wait there comes a time when none waits any more.
C10_BoundedAndEveryWorkerRuns ==
    /\ []C10_Bound
    /\ [][AcquiredOnLeave]_vars
    /\ (\E t \in DOMAIN tpc : Waiting(t)) ~> (\A t \in DOMAIN tpc : ~Waiting(t))

\* five Actors run and a sixth worker waits for the semaphore
C10_Witness ==
    /\ pc = "wave"
    /\ Len(ready) > MaxParallel
    /\ Cardinality(Running) = MaxParallel
    /\ semaphore = 0
    /\ \E t \in DOMAIN tpc : Waiting(t)

\* C11: when execute_steps has returned for the ready set R, results holds
\* one entry for every step index of R and no other entry, whichever Actors
\* of the wave failed.
C11_ResultsComplete ==
    pc = "replan" => DOMAIN results = Range(ready)

\* C12: create_plan is invoked at most 3 times within one execute, and only
\* while the plan has no ready step; when the plan has no ready step after
\* the attempts, no Actor is dispatched and execute returns a diagnostic.
C12_CreateRetriesThenDiagnostic ==
    /\ [](retry_count <= MaxCreateRetry)
    /\ [][(pc = "create" /\ retry_count' = retry_count + 1)
             => (retry_count < MaxCreateRetry /\ get_ready_steps(plan).val = <<>>)]_vars
    /\ []((pc = "loop" /\ ready = <<>> /\ ~get_ready_steps(plan).raised
              /\ get_ready_steps(plan).val = <<>>) => tpc = <<>>)
    /\ []((pc = "done" /\ ready = <<>>) => plan.result = Diagnostic)

\* the wave that runs dispatches one step, every step before it is
\* completed and every step after it has not started
ChainWave ==
    pc = "wave" =>
        /\ Len(ready) = 1
        /\ \A j \in Idx(plan) :
              /\ j < ready[1] => StatusAt(plan, j) = "completed"
              /\ j > ready[1] => StatusAt(plan, j) = "not_started"

\* C13: on a linear plan of n steps whose Actors complete their steps and
\* whose re-plans change nothing, every wave dispatches exactly one step,
\* the step after the completed ones (so step k-1 runs in wave k and there
\* are n waves); then finalize_plan runs once with every step completed and
\* execute terminates.
C13_LinearChainWaves ==
    /\ []ChainWave
    /\ [](pc \in {"finalize", "done"} =>
             \A j \in Idx(plan) : StatusAt(plan, j) = "completed")
    /\ [][(pc' = "done" => pc \in {"finalize", "done"}) /\ (pc = "done" => pc' = "done")]_vars
    /\ <>(pc = "done")

\* execute has returned after running a chain of MaxChain steps
C13_Witness ==
    /\ pc = "done"
    /\ Len(plan.steps) = MaxChain
    /\ ready = <<MaxChain - 1>>
    /\ \A j \in Idx(plan) : StatusAt(plan, j) = "completed"

NotesAt0 == Get(plan.step_notes, At(plan.steps, 0), "None")

\* C14: when act has returned and one of its LLM calls had failed, the step
\* is blocked, its notes are the text of the exception and act has returned
\* that text.
C14_LLMFailureBlocksStep ==
    (agent.at = "return" /\ agent.llm_failed) =>
        /\ StatusAt(plan, 0) = "blocked"
        /\ NotesAt0 = LLMError
        /\ agent.result = LLMError

\* a dispatch of the loop of execute has ended in an error text
DispatchFailed ==
    /\ agent.at = "loop"
    /\ agent.i < MaxIteration
    /\ Len(agent'.history) = Len(agent.history) + 2
    /\ agent'.history[Len(agent'.history)].content \in ErrorTexts

\* C15: a dispatch of the loop that fails adds to the history a tool message
\* with the error text and the tool_call_id of the call, and execute goes on
\* with the next round.
C15_DispatchErrorContinues ==
    [][DispatchFailed =>
          LET h == agent'.history
          IN  /\ h[Len(h)].role = "tool"
              /\ h[Len(h)].tool_call_id = h[Len(h) - 1].tool_call_id
              /\ SubSeq(h, 1, Len(agent.history)) = agent.history
              /\ agent'.at = "loop"
              /\ agent'.i = agent.i + 1]_vars

\* C16: one create_with_tools calls the API at most 5 times and ends; it
\* returns the message of the attempt that succeeded, which is the attempt
\* the loop stopped at, or it raises after the fifth call the framework's
\* exception with the last underlying error.
C16_AtMostFiveAttempts ==
    /\ [](llm.calls <= MaxRetries)
    /\ [](llm.at = "returned" =>
             /\ llm.returned.choices
             /\ llm.returned.id = llm.attempt)
    /\ [](llm.at = "raised" =>
             /\ llm.calls = MaxRetries
             /\ llm.raised = [type |-> "ZaeFrameworkException",
                              reason |-> llm.last_error])
    /\ <>(llm.at \in {"returned", "raised"})

\* C17: the arguments of every tool call of the message create_with_tools
\* returns parse as JSON, after at most 3 repair calls.
C17_AllArgumentsParse ==
    llm.at = "returned" =>
        /\ \A k \in 1..Len(llm.returned.arguments) : Parses(llm.returned.arguments[k])
        /\ llm.repairs <= MaxRepairs

\* every tool message of the list answers an assistant message with
\* tool_calls, and every such assistant message has all its answers
WellGrouped(messages) ==
    \A k \in 1..Len(messages) :
        /\ messages[k].role = "tool" =>
              \E a \in 1..(k - 1) :
                  /\ messages[a].role = "assistant"
                  /\ messages[a].tool_calls >= k - a
                  /\ \A j \in (a + 1)..k : messages[j].role = "tool"
        /\ (messages[k].role = "assistant" /\ messages[k].tool_calls > 0) =>
              /\ k + messages[k].tool_calls <= Len(messages)
              /\ \A j \in 1..messages[k].tool_calls : messages[k + j].role = "tool"

\* C18: the output of _emergency_truncate, of _compress_context (whether
\* the summary call succeeds or fails) and of _truncate_messages holds every
\* message group whole: no tool message without its assistant message, no
\* assistant message with tool_calls without all its tool responses.
C18_GroupsWhole ==
    llm.op \in {"_emergency_truncate", "_compress_context", "_truncate_messages"}
        => WellGrouped(llm.out)

\* the history is at or over the threshold and under the maximum, and has
\* more groups than the turns to keep
CompressionCase(messages) ==
    /\ _count_tokens(messages) >= ThresholdTokens
    /\ _count_tokens(messages) < MaxContextTokens
    /\ Len(_build_message_groups(SelectSeq(messages, NotSystem)))
           > KeepInitialTurns + KeepRecentTurns

\* out is the system messages, the first groups, one tagged summary and the
\* last groups of messages
CompressedLayout(messages, out, tag) ==
    LET groups == _build_message_groups(SelectSeq(messages, NotSystem))
        head == SelectSeq(messages, IsSystem)
                    \o Flatten(FirstN(groups, KeepInitialTurns))
        tail == Flatten(LastN(groups, KeepRecentTurns))
    IN  /\ Len(out) = Len(head) + 1 + Len(tail)
        /\ SubSeq(out, 1, Len(head)) = head
        /\ out[Len(head) + 1].role = "assistant"
        /\ out[Len(head) + 1].tag = tag
        /\ SubSeq(out, Len(head) + 2, Len(out)) = tail

\* C19: with compression enabled, a history in the compression case and a
\* summary call that succeeds, the messages sent are the system messages,
\* the first K_initial groups, one assistant message tagged
\* [Compressed Summary] and the last K_recent groups, and they count at most
\* max_tokens tokens.
C19_CompressedHistory ==
    (/\ llm.op = "send, compression enabled"
     /\ CompressionCase(llm.messages)
     /\ llm.summary.ok /\ llm.summary.len >= 10) =>
        /\ CompressedLayout(llm.messages, llm.out, TagEnglish)
        /\ _count_tokens(llm.out) <= MaxContextTokens

\* a tool message is sent with at most max_tool_content_length characters,
\* and with the marker when its content was longer
Capped(sent, original) ==
    IF original.len > MaxToolContentLength
    THEN /\ sent.len = MaxToolContentLength + MarkerLength
         /\ sent.marker = <<original.len, MaxToolContentLength>>
    ELSE sent = original

\* C20: whether or not compression is enabled or triggered, every tool
\* message of the messages sent is capped; a history the call sends as it is
\* holds its tool messages at the same places.
C20_ToolMessagesCapped ==
    llm.op \in {"send", "send, compression enabled"} =>
        /\ \A k \in 1..Len(llm.out) :
              llm.out[k].role = "tool" =>
                  \/ llm.out[k].len <= MaxToolContentLength
                  \/ llm.out[k].marker # NoMarker
        /\ Len(llm.out) = Len(llm.messages) =>
              \A k \in 1..Len(llm.out) :
                  llm.out[k].role = "tool" => Capped(llm.out[k], llm.messages[k])

\* C21: for every history and both values of max_messages, truncating the
\* output of _truncate_messages again gives that output.
C21_TruncateIdempotent ==
    \A max_messages \in {5, MaxMessages} :
        LET once == _truncate_messages(llm.messages, max_messages)
        IN  (llm.op = "_truncate_messages" /\ llm.out = once) =>
                _truncate_messages(once, max_messages) = once

\* C22: a step whose tool history grows in a step of the program has the
\* status in_progress when the record is appended.
C22_RecordOnlyInProgress ==
    [][\A d \in (DOMAIN plan.step_tools) \cap (DOMAIN plan'.step_tools) :
           Len(plan'.step_tools[d]) > Len(plan.step_tools[d])
               => Get(plan.step_statuses, d, "None") = "in_progress"]_vars

\* an Actor of the wave has been started and has not returned
ActorRunning == \E t \in DOMAIN tpc : tpc[t] # "done"

\* what Plan.update writes: the title, the steps and the dependencies
Structure(p) == <<p.title, p.steps, p.dependencies>>

\* C23: execute reaches re_plan only when every Actor of the wave has
\* returned, and while an Actor runs the title, the steps and the
\* dependencies of the plan stay as the wave found them.
C23_RePlanAfterWave ==
    /\ [](pc = "replan" => ~ActorRunning)
    /\ [][(pc = "wave" /\ pc' = "replan") => ~ActorRunning]_vars
    /\ [][ActorRunning => (pc' = "wave" /\ Structure(plan') = Structure(plan))]_vars

\* re_plan has changed the plan after a wave whose Actor completed its step
C23_Witness ==
    /\ pc = "loop"
    /\ plan.title = RePlanTitle
    /\ \E i \in Idx(plan) : StatusAt(plan, i) = "completed"
    /\ results # <<>>

\* C24: when execute has left the scheduling loop, get_ready_steps returns
\* the empty list and no step is in_progress.
C24_FinalizeQuiescent ==
    pc = "finalize" =>
        /\ ~get_ready_steps(plan).raised
        /\ get_ready_steps(plan).val = <<>>
        /\ \A i \in Idx(plan) : StatusAt(plan, i) # "in_progress"
        /\ tpc = <<>>

\* C25: within one Actor invocation, once the step is completed or blocked
\* neither its status nor its notes are changed again by that invocation; a
\* step completed through the mark_step tool is not turned into blocked by
\* a failing update-facts call.
C25_TerminalFinal ==
    [][(agent.at # "act" /\ StatusAt(plan, 0) \in {"completed", "blocked"})
          => /\ StatusAt(plan', 0) = StatusAt(plan, 0)
             /\ plan'.step_notes = plan.step_notes]_vars

\* C26: in the Actor loop a response without tool call always ends the
\* loop, whatever its content (empty included): it joins the history as an
\* assistant message, its content is the step result and no further
\* create_with_tools call is made for the step.
C26_NoToolCallEndsLoop ==
    [][(/\ agent.at = "loop"
        /\ Len(agent'.history) > Len(agent.history)
        /\ agent'.history[Len(agent'.history)].role = "assistant")
          => /\ agent'.at = "post"
             /\ agent'.result = agent'.history[Len(agent'.history)].content]_vars

\* C27: the tool messages of a response with tool calls c1..cn join the
\* history directly after the assistant message in the order c1..cn of the
\* tool_calls array, whatever order the handlers complete in, exactly one
\* per call, each with the tool_call_id of its own call.
C27_ToolMessagesInCallOrder ==
    /\ \A k \in DOMAIN agent.results :
           /\ agent.results[k].role = "tool"
           /\ agent.results[k].tool_call_id = k
           /\ agent.results[k].name = agent.calls[k].name
    /\ agent.at = "extended" =>
           /\ Len(agent.history) = 2 + Len(agent.calls)
           /\ agent.history[2].role = "assistant"
           /\ \A k \in DOMAIN agent.calls :
                  /\ agent.history[2 + k].role = "tool"
                  /\ agent.history[2 + k].tool_call_id = k
                  /\ agent.history[2 + k].name = agent.calls[k].name

\* two calls whose handlers completed in the reverse order
C27_Witness ==
    /\ agent.at = "extended"
    /\ Len(agent.calls) = 2
    /\ agent.completed = <<2, 1>>

\* C28: every tool call the Actor of step 0 dispatches, in the normal
\* rounds and in the forced mark_step round after max_iteration, produces
\* exactly one ToolExecution in the history of step 0: the step has as many
\* records as the Actor's history has tool messages, in the same order.
C28_EveryCallRecorded ==
    LET calls == SelectSeq(agent.history, LAMBDA m : m.role = "tool")
        tools == Get(plan.step_tools, At(plan.steps, 0), <<>>)
    IN  /\ Len(tools) = Len(calls)
        /\ \A k \in DOMAIN tools : tools[k].tool = calls[k].name

\* an attempt of create_with_tools is rejected with a context-length error
ContextLengthRejected ==
    /\ llm.at = "attempt"
    /\ llm'.calls = llm.calls + 1
    /\ ~llm'.response.choices
    /\ llm'.last_error = ErrContextLength

\* C30: on a context-length error the client lowers max_messages by 5,
\* never below 5, truncates the history and retries, and the retry is not
\* counted against the retry budget: the attempts left are what they were
\* and the invocation does not end because of the rejection.
C30_ContextLengthNotCounted ==
    [][ContextLengthRejected =>
          /\ llm'.max_messages =
                 (IF llm.max_messages - 5 > 5 THEN llm.max_messages - 5 ELSE 5)
          /\ llm'.messages = _truncate_messages(llm.messages, llm'.max_messages)
          /\ llm'.at = "attempt"
          /\ llm'.attempt = llm.attempt]_vars

\* C29: chat_to_llm implements the retry policy of create_with_tools: a
\* failing call of the API is retried, up to 5 attempts in total, and only
\* after the fifth failure the framework's exception is raised to the caller.
C29_ChatRetries ==
    llm.at = "raised" =>
        /\ llm.calls = MaxRetries
        /\ llm.raised.type = "ZaeFrameworkException"

\* C31: with compression enabled, a history whose token count is exactly
\* max_context_tokens undergoes emergency truncation before the call: what
\* is sent is what _compress_context makes of the truncated history.
C31_EmergencyAtMaxTokens ==
    (llm.op = "send, compression enabled"
        /\ _count_tokens(llm.messages) = MaxContextTokens)
      => llm.out = _compress_context(_emergency_truncate(llm.messages, 9), llm.summary)

\* the non-system messages of out are the last whole groups of messages
GroupSuffix(messages, out) ==
    LET groups == _build_message_groups(SelectSeq(messages, NotSystem))
    IN  \E k \in 1..(Len(groups) + 1) :
            SelectSeq(out, NotSystem) = Flatten(SubSeq(groups, k, Len(groups)))

\* C32: the history emergency truncation returns has at most
\* int(0.9 * max_context_tokens) tokens, keeps every system message and
\* keeps of the other messages a suffix made of whole groups.
C32_EmergencyWithinTarget ==
    llm.op = "_emergency_truncate" =>
        /\ _count_tokens(llm.out) <= (MaxContextTokens * 9) \div 10
        /\ SelectSeq(llm.out, IsSystem) = SelectSeq(llm.messages, IsSystem)
        /\ GroupSuffix(llm.messages, llm.out)

\* C33: with an acyclic dependency graph whose indices are all in range,
\* an empty get_ready_steps() means that no step is not_started, and when
\* the scheduling loop of execute has exited every step is completed or
\* blocked.
C33_LoopExitAllDone ==
    (C2_DepsAcyclic /\ C3_DepsInRange) =>
        /\ (~get_ready_steps(plan).raised /\ get_ready_steps(plan).val = <<>>)
              => \A i \in Idx(plan) : StatusAt(plan, i) # "not_started"
        /\ pc = "finalize"
              => \A i \in Idx(plan) : StatusAt(plan, i) \in {"completed", "blocked"}

\* the statuses of the dependencies of step i
DepStatuses(p, i) ==
    {StatusAt(p, d) : d \in {e \in Range(Get(p.dependencies, i, <<>>)) :
                                  IndexOK(p.steps, e)}}

\* C34: a step enters in_progress only when every one of its dependencies
\* is completed or blocked, and two steps linked by a dependency edge are
\* never in_progress at the same time.
C34_DispatchAfterDependencies ==
    /\ [][\A i \in Idx(plan) \cap Idx(plan') :
              (StatusAt(plan, i) # "in_progress" /\ StatusAt(plan', i) = "in_progress")
                  => DepStatuses(plan, i) \subseteq {"completed", "blocked"}]_vars
    /\ [](\A i \in Idx(plan) :
              StatusAt(plan, i) = "in_progress"
                  => "in_progress" \notin DepStatuses(plan, i))

\* status, notes and tool history of step j of plan p
StepState(p, j) ==
    <<StatusAt(p, j), Get(p.step_notes, At(p.steps, j), "None"),
      Get(p.step_tools, At(p.steps, j), <<>>)>>

\* C35: mark_step(i, ...) and record_tool_execution(i, ...) change the
\* state of step i only: status, notes and tool history of every other
\* step j are what they were, also when two steps have the same description.
C35_OnlyStepIChanges ==
    \A i \in Idx(plan) : \A j \in Idx(plan) \ {i} :
        /\ StepState(mark_step(plan, i, "completed", "note"), j) = StepState(plan, j)
        /\ StepState(record_tool_execution(plan, i, "search_google", "found"), j)
               = StepState(plan, j)

\* C36: during a wave the Actor dispatched for step i changes the status
\* and the notes of step i only: a step whose status or notes change in a
\* move of the wave is the step of the Actor that made the move, also when
\* the LLM gives its own step_index in the mark_step call.
C36_ActorMarksOwnStep ==
    [][(pc = "wave" /\ pc' = "wave") =>
          \A j \in Idx(plan) \cap Idx(plan') :
              (StepState(plan', j)[1] # StepState(plan, j)[1]
                  \/ StepState(plan', j)[2] # StepState(plan, j)[2])
                => (j \in DOMAIN tpc /\ tpc'[j] # tpc[j])]_vars

\* C37: the history of the Actor is append-only during act: every message
\* that is in the history stays in its place with its content, also in a
\* round whose LLM call fails.
C37_HistoryAppendOnly ==
    [][/\ Len(agent'.history) >= Len(agent.history)
       /\ SubSeq(agent'.history, 1, Len(agent.history)) = agent.history]_vars

\* C38: the fact-sheet updates of the concurrent Actors of a wave are not
\* lost: every update_facts write is computed from the facts that are in
\* the plan immediately before the write, and no write removes what
\* another Actor of the wave has written.
C38_FactUpdatesNotLost ==
    [][\A t \in (DOMAIN tpc) \cap (DOMAIN tpc') :
          (tpc[t] = "fact_llm" /\ tpc'[t] = "put" /\ plan'.facts # plan.facts)
              => /\ tl[t].seen = plan.facts
                 /\ plan.facts \subseteq plan'.facts]_vars

\* C39: Plan.update called with a title only completes without error and
\* changes the title only: steps, statuses, notes, tool histories and
\* dependencies are what they were before the call.
C39_TitleOnlyUpdate ==
    /\ [](pc # "TypeError")
    /\ [][pc' \in {"title", "TypeError"} =>
              /\ plan'.title = RePlanTitle
              /\ plan' = [plan EXCEPT !.title = RePlanTitle]]_vars

\* a is b with some of its elements left out
RECURSIVE IsSubsequence(_, _)
IsSubsequence(a, b) ==
    IF a = <<>> THEN TRUE
    ELSE IF b = <<>> THEN FALSE
    ELSE IF Head(a) = Head(b) THEN IsSubsequence(Tail(a), Tail(b))
    ELSE IsSubsequence(a, Tail(b))

\* a message _compress_context took over from its input
Kept(m) == m.role # "system" /\ m.tag = ""

\* C40: summary compression never duplicates or reorders history, for
\* every configuration of the two turn counts, zero included: the
\* non-system messages the output took over from the input are a
\* subsequence of the non-system messages of the input.
C40_NoDuplicateNoReorder ==
    llm.op = "_compress_context" =>
        IsSubsequence(SelectSeq(llm.out, Kept), SelectSeq(llm.messages, NotSystem))

====
